---------------------------- MODULE Spec2Model ----------------------------
(***************************************************************************)
(* The frontend/backend RPC message schema of schema/model.py, and the     *)
(* session that the protocol description binds the two methods to.         *)
(*                                                                         *)
(* A JSON value is a record tagged by "kind"; every kind keeps its content *)
(* under a name of its own (s, n, b, items, f).  A JSON string is the      *)
(* sequence of its characters, so that its length and its parse as a URL   *)
(* are computed from the text.  A key that the object does not carry is    *)
(* the value Absent.                                                       *)
(***************************************************************************)
EXTENDS Integers, Sequences, FiniteSets

VARIABLES state, method, payload, outcome, errors, value, result, original

vars == <<state, method, payload, outcome, errors, value, result, original>>

(***************************************************************************)
(* Bounds of the model.                                                    *)
(***************************************************************************)
MaxUrls == 2
MaxPackages == 2

(***************************************************************************)
(* JSON values.                                                            *)
(***************************************************************************)
Absent == [kind |-> "absent"]
Null == [kind |-> "null"]
Str(s) == [kind |-> "str", s |-> s]
Num(n) == [kind |-> "int", n |-> n]
Bool(b) == [kind |-> "bool", b |-> b]
List(items) == [kind |-> "list", items |-> items]
Obj(f) == [kind |-> "obj", f |-> f]

(* Python values: None, and a typed value that is present. *)
None == [some |-> FALSE]
Some(v) == [some |-> TRUE, v |-> v]

(* A diagnostic: the path of the offending field and pydantic's error type. *)
(* index = 0: the field itself; sub = "": no nested field.                  *)
Err(field, index, sub, subindex, type) ==
  [field |-> field, index |-> index, sub |-> sub, subindex |-> subindex, type |-> type]

FieldErr(field, type) == Err(field, 0, "", 0, type)

(* The sequences over S of length at most n. *)
SeqsUpTo(S, n) == UNION {[1..k -> S] : k \in 0..n}

(***************************************************************************)
(* NonEmptyStr = constr(min_length=1): a str of length at least 1.  No      *)
(* stripping and no coercion from other JSON types.                        *)
(***************************************************************************)
MinLength == 1

(* Faulty variant: the min_length constraint is dropped. *)
AnyStrErrors(v, field, index, sub, subindex) ==
  IF v.kind # "str" THEN {Err(field, index, sub, subindex, "string_type")} ELSE {}

NonEmptyStrErrors(v, field, index, sub, subindex) ==
  IF v.kind # "str" THEN {Err(field, index, sub, subindex, "string_type")}
  ELSE IF Len(v.s) < MinLength THEN {Err(field, index, sub, subindex, "string_too_short")}
  ELSE {}

(***************************************************************************)
(* CondaUrl: pydantic_core.Url restricted to the schemes http, https, file. *)
(* The URL text is parsed as the url crate does for the characters used    *)
(* here (letters, digits, ".", ":", "/"; no credentials, port, query,      *)
(* fragment, dot segment or escape): the scheme and the host are           *)
(* lower-cased, a special scheme needs no "//" and gets the path "/" when  *)
(* its path is empty, http/https/ftp need a host.                          *)
(***************************************************************************)
Upper == {"H", "T", "P", "S", "R", "F"}

Lower(c) ==
  CASE c = "H" -> "h" [] c = "T" -> "t" [] c = "P" -> "p" [] c = "S" -> "s"
    [] c = "R" -> "r" [] c = "F" -> "f" [] OTHER -> c

LowerAll(s) == [i \in 1..Len(s) |-> Lower(s[i])]

Alpha == Upper \cup {"h", "t", "p", "s", "f", "i", "l", "e", "r", "x", "c", "y"}

SchemeChars == Alpha \cup {"3", "+", "-", "."}

(* The index of the first c in s from position i on, Len(s) + 1 when none. *)
RECURSIVE Find(_, _, _)
Find(s, c, i) ==
  IF i > Len(s) THEN Len(s) + 1
  ELSE IF s[i] = c THEN i
  ELSE Find(s, c, i + 1)

(* The first position from i on that holds no "/". *)
RECURSIVE SkipSlashes(_, _)
SkipSlashes(s, i) ==
  IF i <= Len(s) /\ s[i] = "/" THEN SkipSlashes(s, i + 1) ELSE i

Slice(s, i, j) == IF i > j THEN <<>> ELSE SubSeq(s, i, j)

h_t_t_p == <<"h", "t", "t", "p">>
h_t_t_p_s == <<"h", "t", "t", "p", "s">>
f_i_l_e == <<"f", "i", "l", "e">>
f_t_p == <<"f", "t", "p">>

SpecialSchemes == {h_t_t_p, h_t_t_p_s, f_t_p, f_i_l_e}

DefaultPath(p) == IF p = <<>> THEN <<"/">> ELSE p

NoUrl == [scheme |-> <<>>, host |-> <<>>, path |-> <<>>]

(* [ok, url]: the parse of the text s. *)
ParseUrl(s) ==
  LET colon == Find(s, ":", 1)
      hasScheme == /\ colon <= Len(s)
                   /\ colon > 1
                   /\ s[1] \in Alpha
                   /\ \A i \in 1..(colon - 1) : s[i] \in SchemeChars
  IN IF ~hasScheme THEN [ok |-> FALSE, url |-> NoUrl]
     ELSE
       LET scheme == LowerAll(Slice(s, 1, colon - 1))
           rest == colon + 1
       IN IF scheme = f_i_l_e THEN
            LET slashes == SkipSlashes(s, rest) - rest
            IN IF slashes >= 2 THEN
                 LET hostEnd == Find(s, "/", rest + 2)
                 IN [ok |-> TRUE,
                     url |-> [scheme |-> scheme,
                              host |-> LowerAll(Slice(s, rest + 2, hostEnd - 1)),
                              path |-> DefaultPath(Slice(s, hostEnd, Len(s)))]]
               ELSE IF slashes = 1 THEN
                 [ok |-> TRUE,
                  url |-> [scheme |-> scheme, host |-> <<>>,
                           path |-> Slice(s, rest, Len(s))]]
               ELSE
                 [ok |-> TRUE,
                  url |-> [scheme |-> scheme, host |-> <<>>,
                           path |-> <<"/">> \o Slice(s, rest, Len(s))]]
          ELSE IF scheme \in SpecialSchemes THEN
            LET hostStart == SkipSlashes(s, rest)
                hostEnd == Find(s, "/", hostStart)
                host == LowerAll(Slice(s, hostStart, hostEnd - 1))
            IN IF host = <<>> THEN [ok |-> FALSE, url |-> NoUrl]
               ELSE [ok |-> TRUE,
                     url |-> [scheme |-> scheme, host |-> host,
                              path |-> DefaultPath(Slice(s, hostEnd, Len(s)))]]
          ELSE
            LET slashes == SkipSlashes(s, rest) - rest
                hostStart == IF slashes >= 2 THEN rest + 2 ELSE rest
                hostEnd == IF slashes >= 2 THEN Find(s, "/", hostStart) ELSE rest
            IN [ok |-> TRUE,
                url |-> [scheme |-> scheme,
                         host |-> Slice(s, hostStart, hostEnd - 1),
                         path |-> Slice(s, hostEnd, Len(s))]]

(* str(url): the text a Url serializes to. *)
UrlString(u) == u.scheme \o <<":", "/", "/">> \o u.host \o u.path

(* Faulty variant: ftp is allowed too. *)
AllowedSchemesWithFtp == {h_t_t_p, h_t_t_p_s, f_i_l_e, f_t_p}

AllowedSchemes == {h_t_t_p, h_t_t_p_s, f_i_l_e}

(* [ok, url, errors] for one entry of channelBaseUrls (loc = field, index). *)
CondaUrl(v, field, index) ==
  IF v.kind # "str"
  THEN [ok |-> FALSE, url |-> NoUrl, errors |-> {Err(field, index, "", 0, "url_type")}]
  ELSE LET p == ParseUrl(v.s)
       IN IF ~p.ok
          THEN [ok |-> FALSE, url |-> NoUrl,
                errors |-> {Err(field, index, "", 0, "url_parsing")}]
          ELSE IF p.url.scheme \notin AllowedSchemes
          THEN [ok |-> FALSE, url |-> NoUrl,
                errors |-> {Err(field, index, "", 0, "url_scheme")}]
          ELSE [ok |-> TRUE, url |-> p.url, errors |-> {}]

(***************************************************************************)
(* The directories of the host that DirectoryPath looks at: "/s" is a      *)
(* directory, "/s/f" a regular file, nothing else exists.                  *)
(***************************************************************************)
P_dir == <<"/", "s">>
P_file == <<"/", "s", "/", "f">>
P_missing == <<"/", "n">>

PathKind(s) ==
  IF s = P_dir THEN "dir" ELSE IF s = P_file THEN "file" ELSE "missing"

(* Faulty variant: a plain Path, the directory is not looked up. *)
PathErrors(v, field) ==
  IF v.kind # "str" THEN {FieldErr(field, "path_type")} ELSE {}

(* DirectoryPath: a str naming an existing directory. *)
DirectoryPathErrors(v, field) ==
  IF v.kind # "str" THEN {FieldErr(field, "path_type")}
  ELSE IF PathKind(v.s) # "dir" THEN {FieldErr(field, "path_not_directory")}
  ELSE {}

(* Faulty variant: the field has a default, the key may be left out. *)
NotRequired(v, field, errs) == errs

(* A field declared with Field(...): the key must be there. *)
Required(v, field, errs) ==
  IF v.kind = "absent" THEN {FieldErr(field, "missing")} ELSE errs

(* An object of the wire: the keys of all four messages and one unknown key. *)
Object(sourceDir, capabilities, targetPlatform, channelBaseUrls, packages, extra) ==
  Obj([sourceDir |-> sourceDir, capabilities |-> capabilities,
       targetPlatform |-> targetPlatform, channelBaseUrls |-> channelBaseUrls,
       packages |-> packages, extra |-> extra])

(* What a model answers to an input that is no object. *)
NotAModel == [ok |-> FALSE, value |-> None, errors |-> {FieldErr("", "model_type")}]

(* Validation produces the whole typed value or the diagnostics, never both. *)
Outcome(errs, v) ==
  IF errs = {} THEN [ok |-> TRUE, value |-> Some(v), errors |-> {}]
  ELSE [ok |-> FALSE, value |-> None, errors |-> errs]

(***************************************************************************)
(* RPC: initialize                                                         *)
(***************************************************************************)
(* providesCondaMetadata: bool | None = Field(None) *)
BackendCapabilitiesErrors(c, field) ==
  IF c.kind # "obj" THEN {FieldErr(field, "model_type")}
  ELSE IF c.f.providesCondaMetadata.kind \in {"absent", "null", "bool"} THEN {}
  ELSE {Err(field, 0, "providesCondaMetadata", 0, "bool_type")}

BackendCapabilities(c) ==
  [providesCondaMetadata |->
     IF c.f.providesCondaMetadata.kind = "bool"
     THEN Some(c.f.providesCondaMetadata.b) ELSE None]

(* class FrontendCapabilities: pass *)
FrontendCapabilitiesErrors(c, field) ==
  IF c.kind # "obj" THEN {FieldErr(field, "model_type")} ELSE {}

FrontendCapabilities == [model |-> "FrontendCapabilities"]

InitializeParams(p) ==
  IF p.kind # "obj" THEN NotAModel
  ELSE LET errs ==
             Required(p.f.sourceDir, "sourceDir",
                      DirectoryPathErrors(p.f.sourceDir, "sourceDir"))
             \cup Required(p.f.capabilities, "capabilities",
                           FrontendCapabilitiesErrors(p.f.capabilities, "capabilities"))
       IN Outcome(errs, [model |-> "InitializeParams",
                         sourceDir |-> p.f.sourceDir.s,
                         capabilities |-> FrontendCapabilities])

InitializeResult(p) ==
  IF p.kind # "obj" THEN NotAModel
  ELSE LET errs == Required(p.f.capabilities, "capabilities",
                            BackendCapabilitiesErrors(p.f.capabilities, "capabilities"))
       IN Outcome(errs, [model |-> "InitializeResult",
                         capabilities |-> BackendCapabilities(p.f.capabilities)])

(***************************************************************************)
(* RPC: condaMetadata                                                      *)
(***************************************************************************)
(* T | None = Field(None): an absent key and null both give None. *)
OptionalStrErrors(v, field, index, sub) ==
  IF v.kind \in {"absent", "null"} THEN {}
  ELSE NonEmptyStrErrors(v, field, index, sub, 0)

OptionalStr(v) == IF v.kind = "str" THEN Some(v.s) ELSE None

(* Faulty variant: channelBaseUrls declared with Field(...), without a default. *)
ChannelBaseUrlsRequiredErrors(v) ==
  IF v.kind = "absent" THEN {FieldErr("channelBaseUrls", "missing")}
  ELSE IF v.kind # "list" THEN {FieldErr("channelBaseUrls", "list_type")}
  ELSE UNION {CondaUrl(v.items[i], "channelBaseUrls", i).errors : i \in 1..Len(v.items)}

(* channelBaseUrls: List[CondaUrl] = Field(None): the default None is taken *)
(* as it is when the key is absent; a value that is given must be a list.   *)
ChannelBaseUrlsErrors(v) ==
  IF v.kind = "absent" THEN {}
  ELSE IF v.kind # "list" THEN {FieldErr("channelBaseUrls", "list_type")}
  ELSE UNION {CondaUrl(v.items[i], "channelBaseUrls", i).errors : i \in 1..Len(v.items)}

ChannelBaseUrls(v) ==
  IF v.kind = "list"
  THEN Some([i \in 1..Len(v.items) |-> CondaUrl(v.items[i], "channelBaseUrls", i).url])
  ELSE None

CondaMetadataParams(p) ==
  IF p.kind # "obj" THEN NotAModel
  ELSE LET errs == OptionalStrErrors(p.f.targetPlatform, "targetPlatform", 0, "")
                   \cup ChannelBaseUrlsErrors(p.f.channelBaseUrls)
       IN Outcome(errs, [model |-> "CondaMetadataParams",
                         targetPlatform |-> OptionalStr(p.f.targetPlatform),
                         channelBaseUrls |-> ChannelBaseUrls(p.f.channelBaseUrls)])

(* NonNegativeInt = Field(0): 0 when the key is absent, else an int >= 0. *)
DefaultBuildNumber == 0

MinBuildNumber == 0

(* Faulty variant: a plain int, negative numbers pass. *)
AnyIntErrors(v, index) ==
  IF v.kind = "absent" THEN {}
  ELSE IF v.kind # "int" THEN {Err("packages", index, "buildNumber", 0, "int_type")}
  ELSE {}

BuildNumberErrors(v, index) ==
  IF v.kind = "absent" THEN {}
  ELSE IF v.kind # "int" THEN {Err("packages", index, "buildNumber", 0, "int_type")}
  ELSE IF v.n < MinBuildNumber
  THEN {Err("packages", index, "buildNumber", 0, "greater_than_equal")}
  ELSE {}

BuildNumber(v) == IF v.kind = "int" THEN v.n ELSE DefaultBuildNumber

(* List[NonEmptyStr] | None = Field(None) *)
OptionalStrListErrors(v, index, sub) ==
  IF v.kind \in {"absent", "null"} THEN {}
  ELSE IF v.kind # "list" THEN {Err("packages", index, sub, 0, "list_type")}
  ELSE UNION {NonEmptyStrErrors(v.items[j], "packages", index, sub, j) :
                j \in 1..Len(v.items)}

(* Faulty variant: an empty list is taken for no list. *)
OptionalStrListOrNone(v) ==
  IF v.kind = "list" /\ v.items # <<>>
  THEN Some([j \in 1..Len(v.items) |-> v.items[j].s]) ELSE None

OptionalStrList(v) ==
  IF v.kind = "list" THEN Some([j \in 1..Len(v.items) |-> v.items[j].s]) ELSE None

(* A NonEmptyStr declared with Field(...), inside packages[index]. *)
RequiredStrErrors(v, index, sub) ==
  IF v.kind = "absent" THEN {Err("packages", index, sub, 0, "missing")}
  ELSE NonEmptyStrErrors(v, "packages", index, sub, 0)

(* An object of the packages list. *)
Package(name, version, build, buildNumber, subdir, depends, constrains, license, licenseFamily) ==
  Obj([name |-> name, version |-> version, build |-> build,
       buildNumber |-> buildNumber, subdir |-> subdir, depends |-> depends,
       constrains |-> constrains, license |-> license,
       licenseFamily |-> licenseFamily])

CondaPackageMetadataErrors(v, index) ==
  IF v.kind # "obj" THEN {Err("packages", index, "", 0, "model_type")}
  ELSE RequiredStrErrors(v.f.name, index, "name")
       \cup RequiredStrErrors(v.f.version, index, "version")
       \cup RequiredStrErrors(v.f.build, index, "build")
       \cup BuildNumberErrors(v.f.buildNumber, index)
       \cup RequiredStrErrors(v.f.subdir, index, "subdir")
       \cup OptionalStrListErrors(v.f.depends, index, "depends")
       \cup OptionalStrListErrors(v.f.constrains, index, "constrains")
       \cup OptionalStrErrors(v.f.license, "packages", index, "license")
       \cup OptionalStrErrors(v.f.licenseFamily, "packages", index, "licenseFamily")

CondaPackageMetadata(v) ==
  [name |-> v.f.name.s, version |-> v.f.version.s, build |-> v.f.build.s,
   buildNumber |-> BuildNumber(v.f.buildNumber), subdir |-> v.f.subdir.s,
   depends |-> OptionalStrList(v.f.depends),
   constrains |-> OptionalStrList(v.f.constrains),
   license |-> OptionalStr(v.f.license),
   licenseFamily |-> OptionalStr(v.f.licenseFamily)]

PackagesErrors(v) ==
  IF v.kind # "list" THEN {FieldErr("packages", "list_type")}
  ELSE UNION {CondaPackageMetadataErrors(v.items[i], i) : i \in 1..Len(v.items)}

CondaMetadataResult(p) ==
  IF p.kind # "obj" THEN NotAModel
  ELSE LET errs == Required(p.f.packages, "packages", PackagesErrors(p.f.packages))
       IN Outcome(errs, [model |-> "CondaMetadataResult",
                         packages |-> [i \in 1..Len(p.f.packages.items) |->
                                         CondaPackageMetadata(p.f.packages.items[i])]])

(***************************************************************************)
(* Schema = TypeAdapter(Union[...]): the payload is tried against the four *)
(* members, without a method name.                                         *)
(***************************************************************************)
Members == {"InitializeParams", "InitializeResult", "CondaMetadataParams",
            "CondaMetadataResult"}

Validate(m, p) ==
  CASE m = "InitializeParams" -> InitializeParams(p)
    [] m = "InitializeResult" -> InitializeResult(p)
    [] m = "CondaMetadataParams" -> CondaMetadataParams(p)
    [] m = "CondaMetadataResult" -> CondaMetadataResult(p)

(* The members that accept p; the union fails only when none does. *)
SchemaAccepting(p) == {m \in Members : Validate(m, p).ok}

SchemaErrors(p) ==
  IF SchemaAccepting(p) # {} THEN {}
  ELSE UNION {Validate(m, p).errors : m \in Members}

(***************************************************************************)
(* Serialization, as model_dump(mode="json") writes a typed value: every   *)
(* field under its key, None as null, a Url as its text.                   *)
(***************************************************************************)
DumpOptionalStr(o) == IF o.some THEN Str(o.v) ELSE Null

DumpOptionalStrList(o) ==
  IF o.some THEN List([j \in 1..Len(o.v) |-> Str(o.v[j])]) ELSE Null

DumpUrls(o) ==
  IF o.some THEN List([i \in 1..Len(o.v) |-> Str(UrlString(o.v[i]))]) ELSE Null

DumpPackage(k) ==
  Package(Str(k.name), Str(k.version), Str(k.build), Num(k.buildNumber),
          Str(k.subdir), DumpOptionalStrList(k.depends),
          DumpOptionalStrList(k.constrains), DumpOptionalStr(k.license),
          DumpOptionalStr(k.licenseFamily))

DumpCapabilities(c) ==
  Obj([providesCondaMetadata |->
         IF c.providesCondaMetadata.some THEN Bool(c.providesCondaMetadata.v)
         ELSE Null])

Dump(v) ==
  CASE v.model = "InitializeParams" ->
         Object(Str(v.sourceDir), Obj([providesCondaMetadata |-> Absent]),
                Absent, Absent, Absent, Absent)
    [] v.model = "InitializeResult" ->
         Object(Absent, DumpCapabilities(v.capabilities), Absent, Absent, Absent, Absent)
    [] v.model = "CondaMetadataParams" ->
         Object(Absent, Absent, DumpOptionalStr(v.targetPlatform),
                DumpUrls(v.channelBaseUrls), Absent, Absent)
    [] v.model = "CondaMetadataResult" ->
         Object(Absent, Absent, Absent, Absent,
                List([i \in 1..Len(v.packages) |-> DumpPackage(v.packages[i])]), Absent)

(***************************************************************************)
(* The payloads the model sends.                                           *)
(***************************************************************************)
S_empty == <<>>
S_a == <<"a">>
S_b == <<"b">>
S_foo == <<"f", "o", "o">>
S_linux == <<"l", "i", "n", "u", "x", "-", "6", "4">>

U_https == <<"h", "t", "t", "p", "s", ":", "/", "/", "r", ".", "x", "/", "c">>
U_HTTP == <<"H", "T", "T", "P", ":", "/", "/", "R", ".", "x">>
U_file == <<"f", "i", "l", "e", ":", "/", "t">>
U_ftp == <<"f", "t", "p", ":", "/", "/", "x", "/", "y">>
U_relative == <<"r", ".", "x", "/", "c">>
U_nohost == <<"h", "t", "t", "p", ":", "/", "/">>

EmptyObject == Obj([providesCondaMetadata |-> Absent])

Extras == {Absent, Str(S_a)}

TargetPlatforms == {Absent, Null, Str(S_empty), Str(S_a), Str(S_linux), Num(1)}

UrlEntries == {Str(U_https), Str(U_HTTP), Str(U_file), Str(U_ftp), Str(U_relative),
               Str(U_nohost), Null}

ChannelBaseUrlsInputs ==
  {Absent, Null, Str(U_https)} \cup {List(s) : s \in SeqsUpTo(UrlEntries, MaxUrls)}

CondaMetadataParamsPayloads ==
  {Object(Absent, Absent, tp, urls, Absent, x) :
     tp \in TargetPlatforms, urls \in ChannelBaseUrlsInputs, x \in Extras}
  \cup {Null}

SourceDirs == {Absent, Null, Str(P_dir), Str(P_file), Str(P_missing), Num(1)}

InitializeParamsPayloads ==
  {Object(d, c, Absent, Absent, Absent, x) :
     d \in SourceDirs, c \in {Absent, Null, EmptyObject, Str(S_a)}, x \in Extras}
  \cup {Null}

BackendCapabilitiesInputs ==
  {Absent, Null, Str(S_a)}
  \cup {Obj([providesCondaMetadata |-> b]) :
          b \in {Absent, Null, Bool(TRUE), Bool(FALSE), List(<<>>)}}

InitializeResultPayloads ==
  {Object(Absent, c, Absent, Absent, Absent, x) :
     c \in BackendCapabilitiesInputs, x \in Extras}
  \cup {Null}

(* A package with every field given, one without the optional fields, and   *)
(* the packages that differ from the first in one field.                    *)
FullPackage ==
  Package(Str(S_foo), Str(S_a), Str(S_b), Num(1), Str(S_linux),
          List(<<Str(S_a), Str(S_b)>>), List(<<Str(S_b)>>), Str(S_a), Str(S_b))

MinimalPackage ==
  Package(Str(S_foo), Str(S_a), Str(S_b), Absent, Str(S_linux),
          Absent, Absent, Absent, Absent)

StrInputs == {Absent, Null, Str(S_empty), Str(S_a)}

StrListInputs ==
  {Absent, Null, Str(S_a), List(<<>>), List(<<Str(S_b), Str(S_a)>>),
   List(<<Str(S_a), Str(S_empty)>>), List(<<Null>>)}

BuildNumberInputs == {Absent, Null, Num(0 - 1), Num(0), Num(2), Str(S_a)}

With(k, field, v) == Obj([k.f EXCEPT ![field] = v])

PackageSamples ==
  {FullPackage, MinimalPackage, Null}
  \cup {With(FullPackage, field, v) :
          field \in {"name", "version", "build", "subdir", "license", "licenseFamily"},
          v \in StrInputs}
  \cup {With(FullPackage, "depends", v) : v \in StrListInputs}
  \cup {With(FullPackage, "constrains", v) :
          v \in {Absent, List(<<>>), List(<<Str(S_empty)>>), List(<<Str(S_a)>>)}}
  \cup {With(FullPackage, "buildNumber", v) : v \in BuildNumberInputs}

PackagesInputs ==
  {Absent, Null, Str(S_a)} \cup {List(s) : s \in SeqsUpTo(PackageSamples, MaxPackages)}

CondaMetadataResultPayloads ==
  {Object(Absent, Absent, Absent, Absent, k, Absent) : k \in PackagesInputs}
  \cup {Object(Absent, Absent, Absent, Absent, List(<<MinimalPackage>>), Str(S_a)), Null}

(* For the union: objects that carry the keys of several messages at once. *)
SchemaPayloads ==
  {Object(d, c, tp, urls, k, x) :
     d \in {Absent, Str(P_dir), Str(P_missing)},
     c \in {Absent, Null, EmptyObject},
     tp \in {Absent, Null, Str(S_a), Str(S_empty)},
     urls \in {Absent, Null, List(<<Str(U_https)>>), List(<<Str(U_ftp)>>)},
     k \in {Absent, Null, List(<<MinimalPackage>>)},
     x \in Extras}
  \cup {Null}

Payloads(m) ==
  CASE m = "InitializeParams" -> InitializeParamsPayloads
    [] m = "InitializeResult" -> InitializeResultPayloads
    [] m = "CondaMetadataParams" -> CondaMetadataParamsPayloads
    [] m = "CondaMetadataResult" -> CondaMetadataResultPayloads

(* What the backend answers. *)
BackendCapabilitiesAnswers ==
  {[providesCondaMetadata |-> b] : b \in {None, Some(TRUE), Some(FALSE)}}

CondaMetadataAnswers ==
  {CondaMetadataResult(Object(Absent, Absent, Absent, Absent, List(s), Absent)).value :
     s \in {<<>>, <<MinimalPackage>>, <<FullPackage, MinimalPackage>>}}

(* The calls of a session carry a few of these payloads. *)
SessionCondaMetadataPayloads ==
  {Object(Absent, Absent, tp, urls, Absent, Absent) :
     tp \in {Absent, Str(S_linux), Str(S_empty)},
     urls \in {Absent, List(<<Str(U_https), Str(U_file)>>), List(<<Str(U_ftp)>>)}}
  \cup {Null}

(***************************************************************************)
(* Validation of one message, Model.model_validate(payload): the message   *)
(* type and the payload are drawn at the start, validation is one step.    *)
(***************************************************************************)
Validated(m, p) ==
  /\ method' = m
  /\ payload' = p
  /\ outcome' = IF Validate(m, p).ok THEN "ok" ELSE "validation_error"
  /\ errors' = Validate(m, p).errors
  /\ value' = Validate(m, p).value

ValidateMessage ==
  /\ outcome = "pending"
  /\ method \in Members
  /\ Validated(method, payload)
  /\ UNCHANGED <<state, result, original>>

(* Schema.validate_python(payload): some accepting member gives the value. *)
ValidateSchema ==
  /\ outcome = "pending"
  /\ method = "Schema"
  /\ errors' = SchemaErrors(payload)
  /\ IF SchemaAccepting(payload) = {}
     THEN outcome' = "validation_error" /\ value' = None
     ELSE /\ outcome' = "ok"
          /\ \E m \in SchemaAccepting(payload) : value' = Validate(m, payload).value
  /\ UNCHANGED <<state, method, payload, result, original>>

(* Model.model_validate(value.model_dump(mode="json")) of an accepted value. *)
RoundTrip ==
  /\ method \in Members
  /\ outcome = "ok"
  /\ original = None
  /\ original' = value
  /\ Validated(method, Dump(value.v))
  /\ UNCHANGED <<state, result>>

ValidationInit ==
  /\ state = "Uninitialized"
  /\ \/ \E m \in Members : method = m /\ payload \in Payloads(m)
     \/ method = "Schema" /\ payload \in SchemaPayloads
  /\ outcome = "pending"
  /\ errors = {}
  /\ value = None
  /\ result = None
  /\ original = None

ValidationNext == ValidateMessage \/ ValidateSchema \/ RoundTrip

ValidationSpec == ValidationInit /\ [][ValidationNext]_vars

(***************************************************************************)
(* The session: Uninitialized until an initialize call succeeds, then      *)
(* Initialized.  A call that is out of order is a sequencing error.        *)
(***************************************************************************)
(* Faulty variant: condaMetadata is served in any state. *)
InOrderOrCondaMetadata(m, st) ==
  \/ m = "initialize" /\ st = "Uninitialized"
  \/ m = "condaMetadata"

(* Faulty variant: initialize is served in any state. *)
InOrderOrInitialize(m, st) ==
  \/ m = "initialize"
  \/ m = "condaMetadata" /\ st = "Initialized"

InOrder(m, st) ==
  \/ m = "initialize" /\ st = "Uninitialized"
  \/ m = "condaMetadata" /\ st = "Initialized"

Rejected(m, p, why, errs) ==
  /\ method' = m
  /\ payload' = p
  /\ outcome' = why
  /\ errors' = errs
  /\ value' = None
  /\ result' = None
  /\ UNCHANGED <<state, original>>

Handled(m, p, v, answer) ==
  /\ method' = m
  /\ payload' = p
  /\ outcome' = "ok"
  /\ errors' = {}
  /\ value' = v
  /\ result' = Some(answer)
  /\ UNCHANGED original

Initialize ==
  \E p \in InitializeParamsPayloads, c \in BackendCapabilitiesAnswers :
    IF ~InOrder("initialize", state)
    THEN Rejected("initialize", p, "sequencing_error", {})
    ELSE IF ~InitializeParams(p).ok
    THEN Rejected("initialize", p, "validation_error", InitializeParams(p).errors)
    ELSE /\ Handled("initialize", p, InitializeParams(p).value,
                    [model |-> "InitializeResult", capabilities |-> c])
         /\ state' = "Initialized"

CondaMetadata ==
  \E p \in SessionCondaMetadataPayloads, r \in CondaMetadataAnswers :
    IF ~InOrder("condaMetadata", state)
    THEN Rejected("condaMetadata", p, "sequencing_error", {})
    ELSE IF ~CondaMetadataParams(p).ok
    THEN Rejected("condaMetadata", p, "validation_error", CondaMetadataParams(p).errors)
    ELSE /\ Handled("condaMetadata", p, CondaMetadataParams(p).value, r.v)
         /\ UNCHANGED state

Init ==
  /\ state = "Uninitialized"
  /\ method = "none"
  /\ payload = Absent
  /\ outcome = "none"
  /\ errors = {}
  /\ value = None
  /\ result = None
  /\ original = None

Next == Initialize \/ CondaMetadata

Spec == Init /\ [][Next]_vars

(***************************************************************************)
(* Properties.                                                             *)
(***************************************************************************)
Done == outcome \in {"ok", "validation_error"}

IsObject == payload.kind = "obj"

Nullish(v) == v.kind \in {"absent", "null"}

ErrorAt(field, index, sub, subindex) ==
  \E e \in errors :
    e.field = field /\ e.index = index /\ e.sub = sub /\ e.subindex = subindex

ErrorOfType(field, index, sub, subindex, type) ==
  Err(field, index, sub, subindex, type) \in errors

Failed == outcome = "validation_error" /\ value = None

(* C1: a condaMetadata call made while the session is Uninitialized is      *)
(* rejected with a sequencing error whatever its payload, is not handled    *)
(* (no typed params, no result) and leaves the session Uninitialized.       *)
C1_CondaMetadataBeforeInitialize ==
  [][(state = "Uninitialized" /\ method' = "condaMetadata")
       => /\ outcome' = "sequencing_error"
          /\ value' = None
          /\ result' = None
          /\ state' = "Uninitialized"]_vars

C1_Witness ==
  /\ state = "Uninitialized"
  /\ method = "condaMetadata"
  /\ outcome = "sequencing_error"
  /\ CondaMetadataParams(payload).ok

(* C2: an initialize call made in a session that is already Initialized is  *)
(* rejected with a sequencing error even when its payload is valid; the     *)
(* session stays Initialized and the call produces no InitializeResult.     *)
C2_InitializeTwice ==
  [][(state = "Initialized" /\ method' = "initialize")
       => /\ outcome' = "sequencing_error"
          /\ value' = None
          /\ result' = None
          /\ state' = "Initialized"]_vars

C2_Witness ==
  /\ state = "Initialized"
  /\ method = "initialize"
  /\ outcome = "sequencing_error"
  /\ InitializeParams(payload).ok

(* C3: an initialize call of an Uninitialized session whose sourceDir names *)
(* no existing directory (missing, or a file) fails validation with a       *)
(* diagnostic on sourceDir: no typed params, no InitializeResult, the       *)
(* session stays Uninitialized, and while the session is Uninitialized an   *)
(* initialize call can succeed.                                             *)
NotADirectory(p) ==
  p.kind = "obj" /\ p.f.sourceDir.kind = "str" /\ PathKind(p.f.sourceDir.s) # "dir"

InitializeSucceeds == Initialize /\ outcome' = "ok" /\ state' = "Initialized"

C3_SourceDirMustExist ==
  /\ [](state = "Uninitialized" => ENABLED InitializeSucceeds)
  /\ [][(state = "Uninitialized" /\ method' = "initialize" /\ NotADirectory(payload'))
          => /\ outcome' = "validation_error"
             /\ \E e \in errors' : e.field = "sourceDir" /\ e.type = "path_not_directory"
             /\ value' = None
             /\ result' = None
             /\ state' = "Uninitialized"]_vars

C3_Witness ==
  /\ state = "Uninitialized"
  /\ method = "initialize"
  /\ outcome = "validation_error"
  /\ NotADirectory(payload)
  /\ PathKind(payload.f.sourceDir.s) = "file"

(* C4: an accepted CondaMetadataParams value, serialized and validated      *)
(* again, is accepted and equal to the original field for field.            *)
C4_ParamsRoundTrip ==
  (method = "CondaMetadataParams" /\ original.some)
    => outcome = "ok" /\ value = original

(* C5: a channelBaseUrls list is accepted exactly when every entry parses   *)
(* as a URL with scheme http, https or file; an entry with another scheme   *)
(* makes the whole message fail, with a diagnostic at that entry's index,   *)
(* and no value is produced.                                                *)
AllowedUrl(v) ==
  /\ v.kind = "str"
  /\ ParseUrl(v.s).ok
  /\ ParseUrl(v.s).url.scheme \in {h_t_t_p, h_t_t_p_s, f_i_l_e}

OtherScheme(v) ==
  v.kind = "str" /\ ParseUrl(v.s).ok /\ ~AllowedUrl(v)

C5_UrlSchemeRestriction ==
  (method = "CondaMetadataParams" /\ Done /\ IsObject
   /\ payload.f.channelBaseUrls.kind = "list")
    => LET items == payload.f.channelBaseUrls.items
       IN /\ \A i \in 1..Len(items) :
               /\ AllowedUrl(items[i]) <=> ~ErrorAt("channelBaseUrls", i, "", 0)
               /\ OtherScheme(items[i])
                    => /\ Failed
                       /\ ErrorOfType("channelBaseUrls", i, "", 0, "url_scheme")
          /\ ErrorAt("channelBaseUrls", 0, "", 0) = FALSE
          /\ (\E i \in 1..Len(items) : ~AllowedUrl(items[i])) => Failed
          /\ ((\A i \in 1..Len(items) : AllowedUrl(items[i]))
              /\ ~ErrorAt("targetPlatform", 0, "", 0))
               => /\ outcome = "ok"
                  /\ value.v.channelBaseUrls.some
                  /\ Len(value.v.channelBaseUrls.v) = Len(items)

C5_Witness ==
  /\ method = "CondaMetadataParams"
  /\ Failed
  /\ IsObject
  /\ payload.f.channelBaseUrls.kind = "list"
  /\ Len(payload.f.channelBaseUrls.items) = 2
  /\ AllowedUrl(payload.f.channelBaseUrls.items[1])
  /\ OtherScheme(payload.f.channelBaseUrls.items[2])
  /\ errors = {Err("channelBaseUrls", 2, "", 0, "url_scheme")}

(* C6: a required field that is absent or null makes validation fail with   *)
(* a diagnostic that names the field (of type "missing" when absent):       *)
(* sourceDir and capabilities of InitializeParams, capabilities of          *)
(* InitializeResult, packages of CondaMetadataResult and name, version,     *)
(* build, subdir of each package; a message with its required fields valid  *)
(* and no optional field is accepted.                                       *)
RequiredField(field) ==
  Nullish(payload.f[field])
    => /\ Failed
       /\ ErrorAt(field, 0, "", 0)
       /\ payload.f[field].kind = "absent" => ErrorOfType(field, 0, "", 0, "missing")

RequiredPackageField(i, sub) ==
  LET v == payload.f.packages.items[i].f[sub]
  IN Nullish(v)
       => /\ Failed
          /\ ErrorAt("packages", i, sub, 0)
          /\ v.kind = "absent" => ErrorOfType("packages", i, sub, 0, "missing")

OnlyRequiredFields ==
  \/ /\ method = "InitializeParams"
     /\ payload.f.sourceDir = Str(P_dir)
     /\ payload.f.capabilities = EmptyObject
  \/ /\ method = "InitializeResult"
     /\ payload.f.capabilities = EmptyObject
  \/ /\ method = "CondaMetadataParams"
     /\ payload.f.targetPlatform = Absent
     /\ payload.f.channelBaseUrls = Absent
  \/ /\ method = "CondaMetadataResult"
     /\ payload.f.packages.kind = "list"
     /\ \A i \in 1..Len(payload.f.packages.items) :
          payload.f.packages.items[i] = MinimalPackage

C6_RequiredFields ==
  (method \in Members /\ Done /\ IsObject)
    => /\ method = "InitializeParams"
            => RequiredField("sourceDir") /\ RequiredField("capabilities")
       /\ method = "InitializeResult" => RequiredField("capabilities")
       /\ method = "CondaMetadataResult"
            => /\ RequiredField("packages")
               /\ payload.f.packages.kind = "list"
                    => \A i \in 1..Len(payload.f.packages.items) :
                         payload.f.packages.items[i].kind = "obj"
                           => \A sub \in {"name", "version", "build", "subdir"} :
                                RequiredPackageField(i, sub)
       /\ OnlyRequiredFields => outcome = "ok" /\ value.some

C6_Witness ==
  /\ method = "CondaMetadataResult"
  /\ IsObject
  /\ payload.f.packages.kind = "list"
  /\ Len(payload.f.packages.items) = 2
  /\ payload.f.packages.items[1] = MinimalPackage
  /\ payload.f.packages.items[2] = With(FullPackage, "build", Absent)
  /\ errors = {Err("packages", 2, "build", 0, "missing")}
  /\ Failed

(* C7: validation of a package sets buildNumber to 0 when the key is        *)
(* omitted, keeps an integer >= 0 as given, and rejects the whole message   *)
(* with a diagnostic on buildNumber when the integer is negative.           *)
C7_BuildNumber ==
  (method = "CondaMetadataResult" /\ Done /\ IsObject
   /\ payload.f.packages.kind = "list")
    => \A i \in 1..Len(payload.f.packages.items) :
         payload.f.packages.items[i].kind = "obj"
           => LET bn == payload.f.packages.items[i].f.buildNumber
              IN /\ (bn.kind = "int" /\ bn.n < 0)
                      => Failed /\ ErrorAt("packages", i, "buildNumber", 0)
                 /\ (bn.kind = "absent" \/ (bn.kind = "int" /\ bn.n >= 0))
                      => /\ ~ErrorAt("packages", i, "buildNumber", 0)
                         /\ outcome = "ok"
                              => value.v.packages[i].buildNumber =
                                   (IF bn.kind = "absent" THEN 0 ELSE bn.n)

C7_Witness ==
  /\ method = "CondaMetadataResult"
  /\ outcome = "ok"
  /\ original = None
  /\ Len(payload.f.packages.items) = 2
  /\ payload.f.packages.items[1].f.buildNumber = Absent
  /\ payload.f.packages.items[2].f.buildNumber = Num(2)
  /\ value.v.packages[1].buildNumber = 0
  /\ value.v.packages[2].buildNumber = 2

(* C8: every NonEmptyStr field rejects "" (string_too_short, the message    *)
(* fails) and accepts a string of length 1; an optional one that is absent  *)
(* is accepted, which is another outcome than the rejection of "".          *)
NonEmptyStrField(v, field, index, sub, subindex) ==
  /\ v = Str(<<>>)
       => Failed /\ ErrorOfType(field, index, sub, subindex, "string_too_short")
  /\ (v.kind = "str" /\ Len(v.s) = 1) => ~ErrorAt(field, index, sub, subindex)

OptionalNonEmptyStrField(v, field, index, sub) ==
  /\ NonEmptyStrField(v, field, index, sub, 0)
  /\ v.kind = "absent" => ~ErrorAt(field, index, sub, 0)

NonEmptyStrEntries(v, index, sub) ==
  /\ v.kind = "absent" => ~ErrorAt("packages", index, sub, 0)
  /\ v.kind = "list"
       => \A j \in 1..Len(v.items) :
            NonEmptyStrField(v.items[j], "packages", index, sub, j)

C8_NonEmptyStr ==
  (method \in {"CondaMetadataParams", "CondaMetadataResult"} /\ Done /\ IsObject)
    => /\ method = "CondaMetadataParams"
            => OptionalNonEmptyStrField(payload.f.targetPlatform, "targetPlatform", 0, "")
       /\ (method = "CondaMetadataResult" /\ payload.f.packages.kind = "list")
            => \A i \in 1..Len(payload.f.packages.items) :
                 LET k == payload.f.packages.items[i]
                 IN k.kind = "obj"
                      => /\ \A sub \in {"name", "version", "build", "subdir"} :
                              NonEmptyStrField(k.f[sub], "packages", i, sub, 0)
                         /\ \A sub \in {"license", "licenseFamily"} :
                              OptionalNonEmptyStrField(k.f[sub], "packages", i, sub)
                         /\ \A sub \in {"depends", "constrains"} :
                              NonEmptyStrEntries(k.f[sub], i, sub)
       /\ outcome = "ok" <=> errors = {}

C8_Witness ==
  /\ method = "CondaMetadataResult"
  /\ IsObject
  /\ payload.f.packages.kind = "list"
  /\ Len(payload.f.packages.items) = 2
  /\ payload.f.packages.items[1] = With(FullPackage, "name", Str(S_a))
  /\ payload.f.packages.items[2] = With(FullPackage, "depends", List(<<Str(S_a), Str(S_empty)>>))
  /\ errors = {Err("packages", 2, "depends", 2, "string_too_short")}
  /\ Failed

(* C9: an accepted CondaMetadataResult, serialized and validated again, is  *)
(* accepted and identical to the original; packages, depends and constrains *)
(* keep the order of the input, an absent depends/constrains is None and an *)
(* empty one is the empty sequence.                                         *)
KeepsList(raw, typed) ==
  /\ raw.kind = "list"
       => /\ typed.some
          /\ Len(typed.v) = Len(raw.items)
          /\ \A j \in 1..Len(raw.items) : typed.v[j] = raw.items[j].s
  /\ Nullish(raw) => typed = None

C9_ResultRoundTrip ==
  method = "CondaMetadataResult"
    => /\ original.some => outcome = "ok" /\ value = original
       /\ outcome = "ok"
            => /\ Len(value.v.packages) = Len(payload.f.packages.items)
               /\ \A i \in 1..Len(payload.f.packages.items) :
                    /\ value.v.packages[i].name = payload.f.packages.items[i].f.name.s
                    /\ KeepsList(payload.f.packages.items[i].f.depends,
                                 value.v.packages[i].depends)
                    /\ KeepsList(payload.f.packages.items[i].f.constrains,
                                 value.v.packages[i].constrains)

C9_Witness ==
  /\ method = "CondaMetadataResult"
  /\ outcome = "ok"
  /\ original.some
  /\ value = original
  /\ Len(value.v.packages) = 2
  /\ value.v.packages[1].depends = None
  /\ value.v.packages[1].constrains = Some(<<S_b>>)
  /\ value.v.packages[2].depends = Some(<<>>)
  /\ value.v.packages[2].constrains = Some(<<S_b>>)

(* C10: the Schema union accepts every object payload whose targetPlatform  *)
(* and channelBaseUrls are each absent or valid, whatever else it carries;  *)
(* a payload that fails as InitializeParams is then accepted as another     *)
(* member.                                                                  *)
ValidTargetPlatform(v) == Nullish(v) \/ (v.kind = "str" /\ Len(v.s) >= 1)

ValidChannelBaseUrls(v) ==
  \/ v.kind = "absent"
  \/ v.kind = "list" /\ \A i \in 1..Len(v.items) : AllowedUrl(v.items[i])

C10_UnionAcceptsParamsShaped ==
  (method = "Schema" /\ Done /\ IsObject
   /\ ValidTargetPlatform(payload.f.targetPlatform)
   /\ ValidChannelBaseUrls(payload.f.channelBaseUrls))
    => /\ outcome = "ok"
       /\ errors = {}
       /\ value.some
       /\ ~InitializeParams(payload).ok => value.v.model # "InitializeParams"

C10_Witness ==
  /\ method = "Schema"
  /\ outcome = "ok"
  /\ payload.f.sourceDir = Str(P_missing)
  /\ payload.f.capabilities = Absent
  /\ payload.f.packages = Null
  /\ payload.f.extra = Str(S_a)
  /\ InitializeParams(payload).errors # {}
  /\ value.v.model = "CondaMetadataParams"
=============================================================================
